---- MODULE Spec2Model ----
(***************************************************************************)
(* Model of the chiyo HTTP router (src/chiyo.go): the static route table,  *)
(* the per-method tries of dynamic routes, global and group middleware,    *)
(* and request dispatch.                                                   *)
(*                                                                         *)
(* A path is a sequence of characters.  The characters "/", ":" and "*"    *)
(* are modelled one by one; every other element of a path ("users", "me",  *)
(* "42", ...) stands for a run of ordinary characters, none of which is    *)
(* "/", ":" or "*".  So "/users/:id" is <<"/","users","/",":","id">>, and  *)
(* the reserved trie key ":param" is <<":","param">>.                      *)
(***************************************************************************)
EXTENDS Integers, Sequences, FiniteSets, TLC

VARIABLES staticRoutes, dynamicRoutes, middleware, group, gcall, registered, resp

vars == <<staticRoutes, dynamicRoutes, middleware, group, gcall, registered, resp>>

(***************************************************************************)
(* Bounds                                                                  *)
(***************************************************************************)
MaxRoutes == 2
MaxMw == 2
MaxSlash == 1

(***************************************************************************)
(* strings                                                                 *)
(***************************************************************************)
Slash == "/"

RECURSIVE TrimLeft(_)
TrimLeft(s) ==
    IF s # <<>> /\ Head(s) = Slash THEN TrimLeft(Tail(s)) ELSE s

RECURSIVE TrimRight(_)
TrimRight(s) ==
    IF s # <<>> /\ s[Len(s)] = Slash THEN TrimRight(SubSeq(s, 1, Len(s) - 1)) ELSE s

\* faulty variant of Trim: the trailing slashes stay
TrimLeftOnly(s) == TrimLeft(s)

\* strings.Trim(s, "/")
Trim(s) == TrimRight(TrimLeft(s))

\* strings.Contains(s, c), c a single character
Contains(s, c) == \E i \in DOMAIN s : s[i] = c

\* strings.HasPrefix(s, c), c a single character
HasPrefix(s, c) == s # <<>> /\ s[1] = c

\* strings.TrimPrefix(s, c), c a single character
TrimPrefix(s, c) == IF HasPrefix(s, c) THEN Tail(s) ELSE s

\* strings.Split(s, "/"): never empty, Split("") is one empty segment
RECURSIVE Split(_)
Split(s) ==
    IF ~Contains(s, Slash) THEN <<s>>
    ELSE LET i == CHOOSE k \in DOMAIN s : s[k] = Slash /\ \A j \in 1..(k - 1) : s[j] # Slash
         IN  <<SubSeq(s, 1, i - 1)>> \o Split(SubSeq(s, i + 1, Len(s)))

(***************************************************************************)
(* handlers and middleware                                                 *)
(*                                                                         *)
(* A handler value is the route's function together with the middleware    *)
(* wrapped around it, outermost first.  A middleware is of the form        *)
(* "pre-logic; next(w, req); post-logic".                                  *)
(***************************************************************************)
NilHandler == [base |-> "nil", wraps |-> <<>>]

HandlerFunc(h) == [base |-> h, wraps |-> <<>>]

\* mw(handler)
Apply(mw, handler) == [base |-> handler.base, wraps |-> <<mw>> \o handler.wraps]

Ev(kind, who) == [ev |-> kind, by |-> who]

RECURSIVE Pre(_)
Pre(ws) == IF ws = <<>> THEN <<>> ELSE <<Ev("pre", Head(ws))>> \o Pre(Tail(ws))

RECURSIVE Post(_)
Post(ws) == IF ws = <<>> THEN <<>> ELSE Post(Tail(ws)) \o <<Ev("post", Head(ws))>>

\* handler(w, req): the events of one call
Invoke(handler) == Pre(handler.wraps) \o <<Ev("call", handler.base)>> \o Post(handler.wraps)

NotFoundEvents == <<Ev("notFound", "notFound")>>

(***************************************************************************)
(* trie                                                                    *)
(*                                                                         *)
(* A trie is a function from the key sequence leading to a node (<<>> for  *)
(* the root) to the node's fields; children[key] of the node at p exists   *)
(* iff Append(p, key) is in the domain.                                    *)
(***************************************************************************)
ParamKey == <<":", "param">>
WildcardKey == <<"*">>

NewNode(isParam, isWillcard, paramName) ==
    [handler |-> NilHandler, isParam |-> isParam, isWillcard |-> isWillcard,
     paramName |-> paramName]

RootNode == NewNode(FALSE, FALSE, <<>>)

EmptyMap == [k \in {} |-> NilHandler]

HasChild(root, cur, key) == Append(cur, key) \in DOMAIN root

InsertKey(part) ==
    IF HasPrefix(part, ":") THEN ParamKey
    ELSE IF HasPrefix(part, "*") THEN WildcardKey
    ELSE part

InsertNode(part) ==
    IF HasPrefix(part, ":") THEN NewNode(TRUE, FALSE, TrimPrefix(part, ":"))
    ELSE IF HasPrefix(part, "*") THEN NewNode(FALSE, TRUE, <<>>)
    ELSE NewNode(FALSE, FALSE, <<>>)

RECURSIVE InsertWalk(_, _, _, _)
InsertWalk(root, cur, parts, handler) ==
    IF parts = <<>> THEN [root EXCEPT ![cur].handler = handler]
    ELSE LET part == Head(parts)
             next == Append(cur, InsertKey(part))
             grown == IF HasChild(root, cur, InsertKey(part)) THEN root
                      ELSE (next :> InsertNode(part)) @@ root
         IN  InsertWalk(grown, next, Tail(parts), handler)

insertDynamicRoute(root, parts, handler) == InsertWalk(root, <<>>, parts, handler)

Bind(params, name, part) ==
    IF name # <<>> THEN (name :> part) @@ params ELSE params

Found(h, params, at) == [handler |-> h, params |-> params, node |-> at]

NoParams == [k \in {} |-> <<>>]

RECURSIVE SearchWalk(_, _, _, _)
SearchWalk(root, cur, parts, params) ==
    IF parts = <<>> THEN Found(root[cur].handler, params, cur)
    ELSE LET part == Head(parts) IN
         IF HasChild(root, cur, part)
         THEN SearchWalk(root, Append(cur, part), Tail(parts), params)
         ELSE IF HasChild(root, cur, ParamKey)
         THEN SearchWalk(root, Append(cur, ParamKey), Tail(parts),
                         Bind(params, root[Append(cur, ParamKey)].paramName, part))
         ELSE IF HasChild(root, cur, WildcardKey)
         THEN Found(root[Append(cur, WildcardKey)].handler, params, Append(cur, WildcardKey))
         ELSE Found(NilHandler, NoParams, <<>>)

\* faulty variant of the search: the parameter child is tried before the literal
RECURSIVE SearchWalkParamFirst(_, _, _, _)
SearchWalkParamFirst(root, cur, parts, params) ==
    IF parts = <<>> THEN Found(root[cur].handler, params, cur)
    ELSE LET part == Head(parts) IN
         IF HasChild(root, cur, ParamKey)
         THEN SearchWalkParamFirst(root, Append(cur, ParamKey), Tail(parts),
                         Bind(params, root[Append(cur, ParamKey)].paramName, part))
         ELSE IF HasChild(root, cur, part)
         THEN SearchWalkParamFirst(root, Append(cur, part), Tail(parts), params)
         ELSE IF HasChild(root, cur, WildcardKey)
         THEN Found(root[Append(cur, WildcardKey)].handler, params, Append(cur, WildcardKey))
         ELSE Found(NilHandler, NoParams, <<>>)

searchParamFirst(root, path) == SearchWalkParamFirst(root, <<>>, Split(path), NoParams)

searchDynamicRoute(root, path) == SearchWalk(root, <<>>, Split(path), NoParams)

(***************************************************************************)
(* dispatch                                                                *)
(***************************************************************************)
\* the loop of serveWithMiddleware, i counting down from len-1 to 0
RECURSIVE Compose(_, _, _)
Compose(mws, i, handler) ==
    IF i < 0 THEN handler ELSE Compose(mws, i - 1, Apply(mws[i + 1], handler))

\* faulty variant of the composition: the first-registered middleware innermost
RECURSIVE ComposeUp(_, _, _)
ComposeUp(mws, i, handler) ==
    IF i >= Len(mws) THEN handler ELSE ComposeUp(mws, i + 1, Apply(mws[i + 1], handler))

serveFirstInnermost(mws, handler) == Invoke(ComposeUp(mws, 0, handler))

serveWithMiddleware(mws, handler) ==
    IF Len(mws) = 0 THEN Invoke(handler)
    ELSE Invoke(Compose(mws, Len(mws) - 1, handler))

StaticKey(method, path) == <<method, " ">> \o path

Response(method, raw, source, found, events) ==
    [op |-> "serve", method |-> method, path |-> raw, source |-> source,
     served |-> found.handler, params |-> found.params, node |-> found.node,
     events |-> events]

NoResponse ==
    [op |-> "none", method |-> "", path |-> <<>>, source |-> "none",
     served |-> NilHandler, params |-> NoParams, node |-> <<>>, events |-> <<>>]

\* faulty variant of the dispatch: the tries are searched before the static table
ServeDynamicFirst(sr, dr, mws, method, raw) ==
    LET path == Trim(raw)
        fullPath == StaticKey(method, path)
        hit == IF method \in DOMAIN dr THEN searchDynamicRoute(dr[method], path)
               ELSE Found(NilHandler, NoParams, <<>>)
    IN  IF hit.handler # NilHandler
        THEN Response(method, raw, "dynamic", hit, serveWithMiddleware(mws, hit.handler))
        ELSE IF fullPath \in DOMAIN sr
        THEN Response(method, raw, "static", Found(sr[fullPath], NoParams, <<>>),
                      serveWithMiddleware(mws, sr[fullPath]))
        ELSE Response(method, raw, "none", Found(NilHandler, NoParams, <<>>), NotFoundEvents)

\* faulty variant of the dispatch: the handler found by the search is served
\* without the nil check
ServeNoNilCheck(sr, dr, mws, method, raw) ==
    LET path == Trim(raw)
        fullPath == StaticKey(method, path)
    IN  IF fullPath \in DOMAIN sr
        THEN Response(method, raw, "static", Found(sr[fullPath], NoParams, <<>>),
                      serveWithMiddleware(mws, sr[fullPath]))
        ELSE IF method \in DOMAIN dr
        THEN LET hit == searchDynamicRoute(dr[method], path)
             IN  Response(method, raw, "dynamic", hit, serveWithMiddleware(mws, hit.handler))
        ELSE Response(method, raw, "none", Found(NilHandler, NoParams, <<>>), NotFoundEvents)

\* the response of Router.ServeHTTP to the request (method, raw)
ServeHTTP(sr, dr, mws, method, raw) ==
    LET path == Trim(raw)
        fullPath == StaticKey(method, path)
        hit == IF method \in DOMAIN dr THEN searchDynamicRoute(dr[method], path)
               ELSE Found(NilHandler, NoParams, <<>>)
    IN  IF fullPath \in DOMAIN sr
        THEN Response(method, raw, "static", Found(sr[fullPath], NoParams, <<>>),
                      serveWithMiddleware(mws, sr[fullPath]))
        ELSE IF method \in DOMAIN dr /\ hit.handler # NilHandler
        THEN Response(method, raw, "dynamic", hit, serveWithMiddleware(mws, hit.handler))
        ELSE Response(method, raw, "none", Found(NilHandler, NoParams, <<>>), NotFoundEvents)

(***************************************************************************)
(* registration                                                            *)
(***************************************************************************)
IsDynamicPath(path) == Contains(path, ":") \/ Contains(path, "*")

\* Router.AddRoute: the static table and the tries after the call
AddStatic(sr, method, raw, handler) ==
    LET path == Trim(raw)
    IN  IF IsDynamicPath(path) THEN sr
        ELSE (StaticKey(method, path) :> handler) @@ sr

AddDynamic(dr, method, raw, handler) ==
    LET path == Trim(raw)
        parts == Split(path)
        root == IF method \in DOMAIN dr THEN dr[method] ELSE (<<>> :> RootNode)
    IN  IF IsDynamicPath(path)
        THEN (method :> insertDynamicRoute(root, parts, handler)) @@ dr
        ELSE dr

Registration(method, raw, handler) == [method |-> method, path |-> raw, handler |-> handler]

AddRoute(method, raw, handler) ==
    /\ staticRoutes' = AddStatic(staticRoutes, method, raw, handler)
    /\ dynamicRoutes' = AddDynamic(dynamicRoutes, method, raw, handler)
    /\ registered' = Append(registered, Registration(method, raw, handler))

\* Router.Use
Use(mw) ==
    /\ middleware' = Append(middleware, mw)
    /\ UNCHANGED <<staticRoutes, dynamicRoutes, group, gcall, registered, resp>>

\* one request handled by Router.ServeHTTP
Request(method, raw) ==
    /\ resp' = ServeHTTP(staticRoutes, dynamicRoutes, middleware, method, raw)
    /\ UNCHANGED <<staticRoutes, dynamicRoutes, middleware, group, gcall, registered>>

(***************************************************************************)
(* groups                                                                  *)
(***************************************************************************)
NoGroup == [made |-> FALSE, prefix |-> <<>>, middleware |-> <<>>]

NoCall == [status |-> "none", method |-> "", path |-> <<>>, handler |-> NilHandler]

\* Router.Group
Group(prefix) ==
    /\ group' = [made |-> TRUE, prefix |-> Trim(prefix), middleware |-> <<>>]
    /\ UNCHANGED <<staticRoutes, dynamicRoutes, middleware, gcall, registered, resp>>

\* Group.Use
GroupUse(mw) ==
    /\ group.made
    /\ group' = [group EXCEPT !.middleware = Append(@, mw)]
    /\ UNCHANGED <<staticRoutes, dynamicRoutes, middleware, gcall, registered, resp>>

\* the loop of Group.AddRoute, i counting down from len to 0; indexing
\* g.middleware[i] outside 0..len-1 panics
RECURSIVE GroupWrap(_, _, _)
GroupWrap(mws, i, handler) ==
    IF i < 0 THEN [panic |-> FALSE, handler |-> handler]
    ELSE IF i >= Len(mws) THEN [panic |-> TRUE, handler |-> handler]
    ELSE GroupWrap(mws, i - 1, Apply(mws[i + 1], handler))

\* Group.AddRoute
GroupAddRoute(method, raw, handler) ==
    LET fullPath == group.prefix \o <<Slash>> \o Trim(raw)
        wrapped == GroupWrap(group.middleware, Len(group.middleware), handler)
    IN  /\ group.made
        /\ IF wrapped.panic
           THEN /\ gcall' = [status |-> "panic", method |-> method, path |-> raw,
                             handler |-> handler]
                /\ UNCHANGED <<staticRoutes, dynamicRoutes, registered>>
           ELSE /\ gcall' = [status |-> "returned", method |-> method, path |-> raw,
                             handler |-> handler]
                /\ AddRoute(method, fullPath, wrapped.handler)
        /\ UNCHANGED <<middleware, group, resp>>

(***************************************************************************)
(* inputs                                                                  *)
(***************************************************************************)
RECURSIVE Join(_)
Join(segs) ==
    IF Len(segs) = 1 THEN Head(segs) ELSE Head(segs) \o <<Slash>> \o Join(Tail(segs))

\* "/" followed by the segments joined with "/"
Url(segs) == <<Slash>> \o Join(segs)

Lit(s) == <<s>>
Par(n) == <<":", n>>
Star == <<"*">>

Methods == {"GET", "POST"}
Handlers == {HandlerFunc("h1"), HandlerFunc("h2")}

Patterns ==
    { Url(<<Lit("users"), Lit("me")>>),
      Url(<<Lit("users"), Par("id")>>),
      Url(<<Lit("users"), Star>>),
      Url(<<Lit("a"), Lit("me"), Par("x")>>),
      Url(<<Lit("a"), Par("id"), Par("x")>>),
      Url(<<Lit("files"), Star>>) }

OrdinaryRequests ==
    { Url(<<Lit("users"), Lit("me")>>),
      Url(<<Lit("users"), Lit("42")>>),
      Url(<<Lit("users")>>),
      Url(<<Lit("users"), Lit("42"), Lit("b")>>),
      Url(<<Lit("a"), Lit("me"), Lit("v")>>),
      Url(<<Lit("a"), Lit("o"), Lit("v")>>),
      Url(<<Lit("a"), Lit("o")>>),
      Url(<<Lit("files"), Lit("s")>>),
      Url(<<Lit("files"), Lit("s"), Lit("t")>>),
      Url(<<Lit("files")>>),
      Url(<<Lit("zzz")>>) }

\* requests with a segment that spells a reserved trie key
SentinelRequests ==
    { Url(<<Lit("users"), Par("param")>>),
      Url(<<Lit("users"), Star>>),
      Url(<<Lit("a"), Par("param"), Lit("v")>>),
      Url(<<Lit("files"), Star>>),
      Url(<<Lit("files"), Star, Lit("t")>>) }

Requests == OrdinaryRequests \cup SentinelRequests

(***************************************************************************)
(* Spec: routes registered, then a request served                          *)
(***************************************************************************)
Init ==
    /\ staticRoutes = EmptyMap
    /\ dynamicRoutes = EmptyMap
    /\ middleware = <<>>
    /\ group = NoGroup
    /\ gcall = NoCall
    /\ registered = <<>>
    /\ resp = NoResponse

\* registration happens before serving begins, and stops at a panic
Setup == resp.op = "none" /\ gcall.status # "panic"

\* resp is the response to the request under observation; dispatch changes
\* nothing of the router, so a behaviour observes one request
Idle == resp.op = "none"

Register ==
    \E m \in Methods, p \in Patterns, h \in Handlers :
        /\ Setup
        /\ Len(registered) < MaxRoutes
        /\ AddRoute(m, p, h)
        /\ UNCHANGED <<middleware, group, gcall, resp>>

Serve ==
    \E m \in Methods, p \in Requests : Idle /\ Request(m, p)

Next == Register \/ Serve

Spec == Init /\ [][Next]_vars

(***************************************************************************)
(* SpecPlain: routes that share prefixes and parameter positions, and      *)
(* requests made of ordinary segments only                                 *)
(***************************************************************************)
PlainPatterns ==
    { Url(<<Lit("users"), Par("id"), Lit("a")>>),
      Url(<<Lit("users"), Par("name"), Lit("b")>>),
      Url(<<Lit("users"), Star>>),
      Url(<<Lit("a"), Lit("b"), Par("x")>>),
      Url(<<Lit("a"), Par("y"), Lit("c"), Par("z")>>) }

PlainRequests ==
    { Url(<<Lit("users"), Lit("42"), Lit("a")>>),
      Url(<<Lit("users"), Lit("42"), Lit("b")>>),
      Url(<<Lit("users"), Lit("42")>>),
      Url(<<Lit("a"), Lit("b"), Lit("v")>>),
      Url(<<Lit("a"), Lit("b"), Lit("c"), Lit("d")>>),
      Url(<<Lit("a"), Lit("o"), Lit("c"), Lit("d")>>),
      Url(<<Lit("zzz")>>) }

RegisterPlain ==
    \E m \in Methods, p \in PlainPatterns, h \in Handlers :
        /\ Setup
        /\ Len(registered) < MaxRoutes
        /\ AddRoute(m, p, h)
        /\ UNCHANGED <<middleware, group, gcall, resp>>

ServePlain ==
    \E m \in Methods, p \in PlainRequests : Idle /\ Request(m, p)

NextPlain == RegisterPlain \/ ServePlain

SpecPlain == Init /\ [][NextPlain]_vars

(***************************************************************************)
(* SpecMw: global middleware                                               *)
(***************************************************************************)
Middlewares == {"logA", "logB"}

MwPatterns == { Url(<<Lit("users"), Lit("me")>>), Url(<<Lit("users"), Par("id")>>) }

MwRequests ==
    { Url(<<Lit("users"), Lit("me")>>), Url(<<Lit("users"), Lit("42")>>), Url(<<Lit("zzz")>>) }

UseMw ==
    \E mw \in Middlewares : Setup /\ Len(middleware) < MaxMw /\ Use(mw)

RegisterMw ==
    \E p \in MwPatterns, h \in Handlers :
        /\ Setup
        /\ Len(registered) < MaxRoutes
        /\ AddRoute("GET", p, h)
        /\ UNCHANGED <<middleware, group, gcall, resp>>

ServeMw ==
    \E p \in MwRequests : Idle /\ Request("GET", p)

NextMw == UseMw \/ RegisterMw \/ ServeMw

SpecMw == Init /\ [][NextMw]_vars

(***************************************************************************)
(* SpecGroup: routes registered through a group                            *)
(***************************************************************************)
ApiV1 == <<"api", Slash, "v1">>
Ping == <<"ping">>

GroupPrefixes == { ApiV1, <<Slash>> \o ApiV1 \o <<Slash>> }

GroupPaths == { Ping, <<Slash>> \o Ping }

GroupRequests ==
    { Url(<<Lit("api"), Lit("v1"), Lit("ping")>>),
      Url(<<Lit("ping")>>),
      Url(<<Lit("api"), Lit("v1")>>) }

MakeGroup ==
    \E p \in GroupPrefixes : Setup /\ ~group.made /\ Group(p)

GroupUseMw ==
    \E mw \in Middlewares : Setup /\ Len(group.middleware) < MaxMw /\ GroupUse(mw)

GroupRegister ==
    \E p \in GroupPaths, h \in Handlers :
        Setup /\ gcall.status = "none" /\ GroupAddRoute("GET", p, h)

ServeGroup ==
    \E p \in GroupRequests : Idle /\ Request("GET", p)

NextGroup == MakeGroup \/ GroupUseMw \/ GroupRegister \/ ServeGroup

SpecGroup == Init /\ [][NextGroup]_vars

(***************************************************************************)
(* SpecNorm: paths spelled with leading and trailing slashes               *)
(***************************************************************************)
RECURSIVE Slashes(_)
Slashes(n) == IF n = 0 THEN <<>> ELSE <<Slash>> \o Slashes(n - 1)

\* core with i slashes before it and j after it
Pad(i, core, j) == Slashes(i) \o core \o Slashes(j)

RootCore == <<>>
ABCore == Join(<<Lit("a"), Lit("b")>>)
AXCore == Join(<<Lit("a"), Par("x")>>)
ACCore == Join(<<Lit("a"), Lit("c")>>)

NormRoutes ==
    { Registration("GET", RootCore, HandlerFunc("h0")),
      Registration("GET", ABCore, HandlerFunc("h1")),
      Registration("GET", AXCore, HandlerFunc("h2")) }

NormRequestCores == { RootCore, ABCore, ACCore }

RegisterNorm ==
    \E r \in NormRoutes, i \in 0..MaxSlash, j \in 0..MaxSlash :
        /\ Setup
        /\ Len(registered) < MaxRoutes
        /\ AddRoute(r.method, Pad(i, r.path, j), r.handler)
        /\ UNCHANGED <<middleware, group, gcall, resp>>

ServeNorm ==
    \E c \in NormRequestCores, i \in 0..MaxSlash, j \in 0..MaxSlash :
        Idle /\ Request("GET", Pad(i, c, j))

NextNorm == RegisterNorm \/ ServeNorm

SpecNorm == Init /\ [][NextNorm]_vars

(***************************************************************************)
(* Properties                                                              *)
(***************************************************************************)
Served == resp.op = "serve"

Segs(raw) == Split(Trim(raw))

IsParamSeg(s) == HasPrefix(s, ":")
IsWildSeg(s) == HasPrefix(s, "*")
IsLitSeg(s) == ~IsParamSeg(s) /\ ~IsWildSeg(s)

IsStaticReg(r) == ~Contains(r.path, ":") /\ ~Contains(r.path, "*")

\* the route handlers called by the observed dispatch, in order
Calls == SelectSeq(resp.events, LAMBDA e : e.ev = "call")

CallsExactly(h) == Calls = <<Ev("call", h.base)>>

\* the request segments req match the pattern segments pat: literals equal, a
\* parameter for one segment, a wildcard for the remaining one or more
RECURSIVE PatternMatches(_, _)
PatternMatches(pat, req) ==
    IF pat = <<>> THEN req = <<>>
    ELSE IF req = <<>> THEN FALSE
    ELSE IF IsWildSeg(Head(pat)) THEN TRUE
    ELSE IF IsParamSeg(Head(pat)) THEN PatternMatches(Tail(pat), Tail(req))
    ELSE Head(pat) = Head(req) /\ PatternMatches(Tail(pat), Tail(req))

SameStaticKey(r, q) ==
    IsStaticReg(r) /\ IsStaticReg(q) /\ r.method = q.method /\ Trim(r.path) = Trim(q.path)

\* C1: a request for the method and path of a registered static route is
\* answered by the handler most recently registered for that static key, and
\* by no other handler, whatever dynamic routes are registered.
C1_StaticPriority ==
    \A i \in DOMAIN registered :
        LET r == registered[i] IN
        ( /\ Served
          /\ IsStaticReg(r)
          /\ r.method = resp.method
          /\ Trim(r.path) = Trim(resp.path)
          /\ \A j \in DOMAIN registered : j > i => ~SameStaticKey(r, registered[j]) )
        => /\ resp.served = r.handler
           /\ CallsExactly(r.handler)

UsersMe == Url(<<Lit("users"), Lit("me")>>)
UsersId == Url(<<Lit("users"), Par("id")>>)

C1_Witness ==
    /\ Served
    /\ resp.path = UsersMe
    /\ Len(registered) = 2
    /\ registered[1] = Registration(resp.method, UsersId, HandlerFunc("h2"))
    /\ registered[2] = Registration(resp.method, UsersMe, HandlerFunc("h1"))
    /\ CallsExactly(HandlerFunc("h1"))

NoStaticRouteFor(method, raw) ==
    \A j \in DOMAIN registered :
        ~( /\ IsStaticReg(registered[j])
           /\ registered[j].method = method
           /\ Trim(registered[j].path) = Trim(raw) )

\* C2: with GET /users/:id -> h registered and no static route for the
\* requested path, GET /users/v invokes h with the parameters exactly
\* {id: v}, for every non-empty single segment v.
C2_ParamCapture ==
    \A i \in DOMAIN registered :
        LET r == registered[i]
            req == Segs(resp.path)
        IN  ( /\ Served
              /\ resp.method = "GET"
              /\ r.method = "GET"
              /\ Trim(r.path) = Trim(UsersId)
              /\ \A j \in DOMAIN registered :
                    (j > i /\ registered[j].method = "GET")
                        => Trim(registered[j].path) # Trim(UsersId)
              /\ NoStaticRouteFor("GET", resp.path)
              /\ Len(req) = 2
              /\ req[1] = Lit("users")
              /\ req[2] # <<>> )
            => /\ CallsExactly(r.handler)
               /\ resp.params = (<<"id">> :> req[2])

\* r1 and r2 are routes of one method that differ only at position k, where
\* r1 has a literal and r2 a parameter; a wildcard, if any, is their last segment
LitParamPair(r1, r2, k) ==
    LET p1 == Segs(r1.path)
        p2 == Segs(r2.path)
    IN  /\ r1.method = r2.method
        /\ Len(p1) = Len(p2)
        /\ k \in DOMAIN p1
        /\ IsLitSeg(p1[k])
        /\ IsParamSeg(p2[k])
        /\ \A j \in DOMAIN p1 :
              /\ j # k => p1[j] = p2[j]
              /\ IsWildSeg(p1[j]) => j = Len(p1)

\* C3: when the two registered routes differ only in one position, a literal
\* s against a parameter, a request with s there invokes the literal route's
\* handler and a request with any other segment there the parameter route's.
C3_LiteralOverParam ==
    \A i, j \in DOMAIN registered :
        \A k \in DOMAIN Segs(registered[i].path) :
            LET r1 == registered[i]
                r2 == registered[j]
                req == Segs(resp.path)
            IN  ( /\ Served
                  /\ Len(registered) = 2
                  /\ LitParamPair(r1, r2, k)
                  /\ resp.method = r1.method )
                => /\ PatternMatches(Segs(r1.path), req) => CallsExactly(r1.handler)
                   /\ (PatternMatches(Segs(r2.path), req) /\ req[k] # Segs(r1.path)[k])
                          => CallsExactly(r2.handler)

AMeX == Url(<<Lit("a"), Lit("me"), Par("x")>>)
AIdX == Url(<<Lit("a"), Par("id"), Par("x")>>)

C3_Witness ==
    /\ Served
    /\ resp.method = "GET"
    /\ resp.path = Url(<<Lit("a"), Lit("me"), Lit("v")>>)
    /\ registered = << Registration("GET", AIdX, HandlerFunc("h2")),
                       Registration("GET", AMeX, HandlerFunc("h1")) >>
    /\ CallsExactly(HandlerFunc("h1"))
    /\ resp.params = (<<"x">> :> Lit("v"))

FilesStar == Url(<<Lit("files"), Star>>)

\* C4: with GET /files/* -> h the only route registered under /files,
\* GET /files/s1/.../sk invokes h for every k >= 1 and all segment values.
C4_WildcardShortCircuit ==
    \A i \in DOMAIN registered :
        LET r == registered[i]
            req == Segs(resp.path)
        IN  ( /\ Served
              /\ resp.method = "GET"
              /\ r.method = "GET"
              /\ Trim(r.path) = Trim(FilesStar)
              /\ \A j \in DOMAIN registered :
                    (registered[j].method = "GET" /\ Segs(registered[j].path)[1] = Lit("files"))
                        => /\ Trim(registered[j].path) = Trim(FilesStar)
                           /\ j <= i
              /\ Len(req) >= 2
              /\ req[1] = Lit("files") )
            => CallsExactly(r.handler)

NoStaticHit ==
    \A j \in DOMAIN registered :
        ~( /\ IsStaticReg(registered[j])
           /\ registered[j].method = resp.method
           /\ Trim(registered[j].path) = Trim(resp.path) )

NoTrieHit ==
    \/ resp.method \notin DOMAIN dynamicRoutes
    \/ searchDynamicRoute(dynamicRoutes[resp.method], Trim(resp.path)).handler = NilHandler

\* C7: a request that hits neither the static table nor a trie node carrying
\* a handler invokes the not-found fallback exactly once and no route handler.
C7_NotFoundOnce ==
    (Served /\ NoStaticHit /\ NoTrieHit) => resp.events = NotFoundEvents

\* a path that ends at an intermediate node without a handler
C7_Witness ==
    /\ Served
    /\ resp.path = Url(<<Lit("users")>>)
    /\ resp.method \in DOMAIN dynamicRoutes
    /\ <<Lit("users")>> \in DOMAIN dynamicRoutes[resp.method]
    /\ dynamicRoutes[resp.method][<<Lit("users")>>].handler = NilHandler
    /\ resp.events = NotFoundEvents

KeysOf(pat) == [k \in DOMAIN pat |-> InsertKey(pat[k])]

\* C9: when a dispatch resolves to the handler of a registered dynamic route
\* whose k-th segment is ':n', the parameters bind n to the k-th request
\* segment.
C9_ParamNames ==
    \A i \in DOMAIN registered :
        LET r == registered[i]
            pat == Segs(r.path)
            req == Segs(resp.path)
        IN  ( /\ Served
              /\ resp.source = "dynamic"
              /\ r.method = resp.method
              /\ ~IsStaticReg(r)
              /\ KeysOf(pat) = resp.node
              /\ \A j \in DOMAIN registered :
                    (j > i /\ registered[j].method = r.method /\ ~IsStaticReg(registered[j]))
                        => KeysOf(Segs(registered[j].path)) # resp.node )
            => \A k \in DOMAIN pat :
                   IsParamSeg(pat[k])
                       => /\ Tail(pat[k]) \in DOMAIN resp.params
                          /\ resp.params[Tail(pat[k])] = req[k]

\* C10: if the request path matches the pattern of some registered route of
\* the request's method, dispatch invokes a registered handler and not the
\* not-found fallback.
C10_FallbackOnlyWhenNoMatch ==
    ( /\ Served
      /\ \E i \in DOMAIN registered :
            /\ registered[i].method = resp.method
            /\ PatternMatches(Segs(registered[i].path), Segs(resp.path)) )
    => /\ resp.events # NotFoundEvents
       /\ Calls # <<>>

\* C5: with global middleware [m0, ..., mn-1] and a matched handler h, one
\* dispatch produces m0 pre, ..., mn-1 pre, h, mn-1 post, ..., m0 post.
C5_MiddlewareOrder ==
    (Served /\ resp.source # "none")
    => LET n == Len(middleware) IN
       /\ Len(resp.events) = 2 * n + 1
       /\ resp.events[n + 1] = Ev("call", resp.served.base)
       /\ \A i \in 1..n :
             /\ resp.events[i] = Ev("pre", middleware[i])
             /\ resp.events[2 * n + 2 - i] = Ev("post", middleware[i])

C5_Witness ==
    /\ Served
    /\ middleware = <<"logA", "logB">>
    /\ resp.source = "dynamic"
    /\ resp.events = << Ev("pre", "logA"), Ev("pre", "logB"), Ev("call", "h1"),
                        Ev("post", "logB"), Ev("post", "logA") >>

\* C6: after g := Group("api/v1") and g.AddRoute(GET, "ping", h), with any
\* number of middleware added through g.Use, the registration completes and
\* h is reachable at GET /api/v1/ping and only there.
C6_GroupPrefixing ==
    ( /\ group.made
      /\ group.prefix = ApiV1
      /\ gcall.status # "none"
      /\ gcall.method = "GET"
      /\ Trim(gcall.path) = Ping )
    => /\ gcall.status = "returned"
       /\ (Served /\ resp.method = "GET" /\ Trim(resp.path) = ApiV1 \o <<Slash>> \o Ping)
             => Calls = <<Ev("call", gcall.handler.base)>>
       /\ (Served /\ resp.method = "GET" /\ Trim(resp.path) \in {Ping, ApiV1})
             => resp.events = NotFoundEvents

AllCores == {r.path : r \in NormRoutes} \cup NormRequestCores

\* the spellings of each core with added leading and trailing slashes
Spellings ==
    [c \in AllCores |-> {Pad(i, c, j) : i \in 0..(2 * MaxSlash), j \in 0..(2 * MaxSlash)}]

\* the path that raw spells
Core(raw) == CHOOSE c \in AllCores : raw \in Spellings[c]

RegisteredCore(c) == \E k \in DOMAIN registered : Core(registered[k].path) = c

\* C8: a route registered under one spelling of its path (any number of
\* leading and trailing slashes) answers a request under any other spelling
\* of the same path, for static and for dynamic routes.
C8_PathNormalization ==
    Served =>
        LET c == Core(resp.path) IN
        IF RegisteredCore(c)
        THEN \E r \in NormRoutes : r.path = c /\ CallsExactly(r.handler)
        ELSE IF c # RootCore /\ RegisteredCore(AXCore)
        THEN /\ CallsExactly(HandlerFunc("h2"))
             /\ resp.params = (<<"x">> :> Split(c)[2])
        ELSE resp.events = NotFoundEvents

\* a static and a dynamic route registered with slashes, requested without
C8_Witness ==
    /\ Served
    /\ Len(registered) = 2
    /\ registered[1].path = Pad(1, ABCore, 1)
    /\ registered[2].path = Pad(0, AXCore, 1)
    /\ resp.path = Pad(0, ABCore, 0)
    /\ CallsExactly(HandlerFunc("h1"))

C8_WitnessDynamic ==
    /\ Served
    /\ Len(registered) = 1
    /\ registered[1].path = Pad(0, AXCore, 1)
    /\ resp.path = Pad(1, ACCore, 0)
    /\ CallsExactly(HandlerFunc("h2"))

====
